---------------------------- MODULE Spec2Model ----------------------------
(***************************************************************************)
(* Paragraph reconstruction (TextProcessor), markup formatting and field   *)
(* classification (AdvancedPDFExtractor) of the PDF record extractor.      *)
(*                                                                         *)
(* A text is a sequence of characters.  An ASCII character is the          *)
(* one-character string; a non-ASCII character is the token "uXXXX" that   *)
(* names its code point (u6c11 is the ideograph U+6C11).                   *)
(* A font size s is held as the integer s * Scale, so that halving, the    *)
(* only arithmetic the code does on sizes, stays exact.                    *)
(***************************************************************************)
EXTENDS Integers, Sequences, FiniteSets, TLC

\* ------------------------------------------------------------------ bounds
MaxFrags == 3          \* fragments per document, reconstruction inputs
MaxLines == 2          \* fragments per document, classification inputs
MaxDirectCalls == 1    \* calls of clean_and_merge_paragraphs made by the
                       \* caller before smart_classify_content (the test: 1)

\* ------------------------------------------------------------- characters
Str(s) == [k \in 1..Len(s) |-> SubSeq(s, k, k)]

UpperSeq == Str("ABCDEFGHIJKLMNOPQRSTUVWXYZ")
LowerSeq == Str("abcdefghijklmnopqrstuvwxyz")
Upper == {UpperSeq[k] : k \in 1..26}
Lower == {LowerSeq[k] : k \in 1..26}
Digit == {"0", "1", "2", "3", "4", "5", "6", "7", "8", "9"}
\* \s : the whitespace characters of the alphabet
White == {" "}
\* [一-鿿] : the ideographs of the alphabet
CJK == {"u6c11", "u4e3b", "u661f", "u706b", "u885d", "u7834", "u6212", "u56b4",
        "u4f5c", "u8005", "u7ffb", "u8b6f", "u63d2", "u756b", "u51fa", "u7248",
        "u7b2c", "u7ae0", "u7bc0", "u7bc7", "u9801", "u6578", "u50f9", "u683c",
        "u793e", "u5f0f", "u5c3a", "u5bf8", "u6b21", "u6b0a", "u5370", "u5237",
        "u672c", "u65e5", "u671f", "u6f2b", "u5c0f", "u8aaa", "u6559", "u79d1",
        "u66f8", "u80b2", "u985e", "u5225"}
FwColon == "uff1a"     \* fullwidth colon
FwComma == "uff0c"     \* fullwidth comma
FwStop == "u3002"      \* ideographic full stop
FwBang == "uff01"      \* fullwidth exclamation mark
FwQuest == "uff1f"     \* fullwidth question mark
FwSemi == "uff1b"      \* fullwidth semicolon

\* str.lower() on one character
LowerChar(c) ==
    IF c \in Upper THEN LowerSeq[CHOOSE k \in 1..26 : UpperSeq[k] = c] ELSE c

\* str.lower()
ToLower(t) == [k \in 1..Len(t) |-> LowerChar(t[k])]

\* ----------------------------------------------------------- str helpers
\* the least element of a non-empty set of integers
MinOf(S) == CHOOSE k \in S : \A j \in S : k <= j

\* number of leading characters of t that lie in the set cls
LeadRun(t, cls) ==
    (CHOOSE k \in 1..(Len(t) + 1) :
        /\ (k = Len(t) + 1 \/ t[k] \notin cls)
        /\ \A j \in 1..(k - 1) : t[j] \in cls) - 1

\* number of leading characters of t that lie outside the set cls
LeadRunNot(t, cls) ==
    (CHOOSE k \in 1..(Len(t) + 1) :
        /\ (k = Len(t) + 1 \/ t[k] \in cls)
        /\ \A j \in 1..(k - 1) : t[j] \notin cls) - 1

\* number of trailing characters of t that lie in the set cls
TrailRun(t, cls) ==
    CHOOSE d \in 0..Len(t) :
        /\ (d = Len(t) \/ t[Len(t) - d] \notin cls)
        /\ \A j \in 0..(d - 1) : t[Len(t) - j] \in cls

\* str.strip()
Strip(t) == SubSeq(t, LeadRun(t, White) + 1, Len(t) - TrailRun(t, White))

\* str.startswith(p)
StartsWith(t, p) == Len(t) >= Len(p) /\ SubSeq(t, 1, Len(p)) = p

\* str.endswith(p)
EndsWith(t, p) == Len(t) >= Len(p) /\ SubSeq(t, Len(t) - Len(p) + 1, Len(t)) = p

\* p occurs in t at position k
OccursAt(t, p, k) ==
    /\ k + Len(p) - 1 <= Len(t)
    /\ (p = <<>> \/ t[k] = p[1])
    /\ SubSeq(t, k, k + Len(p) - 1) = p

\* p in t
Contains(t, p) == \E k \in 1..(Len(t) - Len(p) + 1) : OccursAt(t, p, k)

\* some character of t lies in cls : re.search(r'[cls]', t)
HasChar(t, cls) == \E k \in 1..Len(t) : t[k] \in cls

\* the last character of t lies in cls : re.search(r'[cls]$', t)
LastIn(t, cls) == t # <<>> /\ t[Len(t)] \in cls

\* the first character of t lies in cls : re.match(r'^[cls]', t)
FirstIn(t, cls) == t # <<>> /\ t[1] \in cls

\* ------------------------------------------------------------- font sizes
Scale == 2 ^ (MaxFrags + MaxLines)
Sz(n) == n * Scale

\* --------------------------------------------------------- TextProcessor
Terminal == {".", "!", "?", FwStop, FwBang, FwQuest}
Letter == Upper \cup Lower

chapter_keywords ==
    <<Str("Chapter"), Str("Part"), Str("Section"),
      <<"u7b2c">>, <<"u7ae0">>, <<"u7bc0">>, <<"u7bc7">> >>

\* any(style.get("is_bold") for style in styles)
AnyBold(styles) == \E k \in 1..Len(styles) : styles[k].is_bold

\* any(style.get("is_italic") for style in styles)
AnyItalic(styles) == \E k \in 1..Len(styles) : styles[k].is_italic

\* re.match(r'^[A-Z][a-zA-Z\s]{10,}', text)
LatinHeading(text) ==
    /\ FirstIn(text, Upper)
    /\ LeadRun(Tail(text), Letter \cup White) >= 10

\* re.match(r'^[一-鿿]{2,}[：:：]', text)
CJKHeading(text) ==
    LET r == LeadRun(text, CJK)
    IN  r >= 2 /\ r < Len(text) /\ text[r + 1] \in {":", FwColon}

\* re.match(r'^\d+[\.\)]\s*', text)
NumberedMarker(text) ==
    LET r == LeadRun(text, Digit)
    IN  r >= 1 /\ r < Len(text) /\ text[r + 1] \in {".", ")"}

\* _is_new_paragraph without the test of the bold spans
IsNewParagraphNoBold(text, block) ==
    \/ block.avg_font_size > Sz(14)
    \/ LatinHeading(text)
    \/ CJKHeading(text)
    \/ NumberedMarker(text)
    \/ \E k \in 1..Len(chapter_keywords) : StartsWith(text, chapter_keywords[k])

_is_new_paragraph(text, block) ==
    \/ block.avg_font_size > Sz(14)
    \/ AnyBold(block.styles)
    \/ LatinHeading(text)
    \/ CJKHeading(text)
    \/ NumberedMarker(text)
    \/ \E k \in 1..Len(chapter_keywords) : StartsWith(text, chapter_keywords[k])

\* _should_merge_texts with the capitalised-continuation rule reduced to
\* "the open text ends in a comma or holds no terminal punctuation"
ShouldMergeCommaOnly(text1_, text2_) ==
    LET text1 == Strip(text1_)
        text2 == Strip(text2_)
    IN  IF LastIn(text1, Terminal) THEN FALSE
        ELSE IF FirstIn(text2, Upper)
             THEN \/ LastIn(text1, {",", FwComma})
                  \/ ~HasChar(text1, Terminal)
        ELSE IF FirstIn(text2, Lower) THEN TRUE
        ELSE IF LastIn(text1, {"-", ",", FwComma} \cup White) THEN TRUE
        ELSE Len(text1) < 50 /\ Len(text2) < 50

\* _should_merge_texts without the length test of the capitalised continuation
ShouldMergeNoLength(text1_, text2_) ==
    LET text1 == Strip(text1_)
        text2 == Strip(text2_)
    IN  IF LastIn(text1, Terminal) THEN FALSE
        ELSE IF FirstIn(text2, Upper)
             THEN \/ LastIn(text1, {",", FwComma, "-"} \cup White)
                  \/ ~HasChar(text1, Terminal)
        ELSE IF FirstIn(text2, Lower) THEN TRUE
        ELSE IF LastIn(text1, {"-", ",", FwComma} \cup White) THEN TRUE
        ELSE Len(text1) < 50 /\ Len(text2) < 50

\* _should_merge_texts with the lowercase test moved before the test of the
\* terminal punctuation
ShouldMergeLowerFirst(text1_, text2_) ==
    LET text1 == Strip(text1_)
        text2 == Strip(text2_)
    IN  IF FirstIn(text2, Lower) THEN TRUE
        ELSE IF LastIn(text1, Terminal) THEN FALSE
        ELSE IF FirstIn(text2, Upper)
             THEN \/ LastIn(text1, {",", FwComma, "-"} \cup White)
                  \/ Len(text1) < 30
                  \/ ~HasChar(text1, Terminal)
        ELSE IF LastIn(text1, {"-", ",", FwComma} \cup White) THEN TRUE
        ELSE Len(text1) < 50 /\ Len(text2) < 50

\* _should_merge_texts whose last test looks at the length of the open text only
ShouldMergeOpenShort(text1_, text2_) ==
    LET text1 == Strip(text1_)
        text2 == Strip(text2_)
    IN  IF LastIn(text1, Terminal) THEN FALSE
        ELSE IF FirstIn(text2, Upper)
             THEN \/ LastIn(text1, {",", FwComma, "-"} \cup White)
                  \/ Len(text1) < 30
                  \/ ~HasChar(text1, Terminal)
        ELSE IF FirstIn(text2, Lower) THEN TRUE
        ELSE IF LastIn(text1, {"-", ",", FwComma} \cup White) THEN TRUE
        ELSE Len(text1) < 50

_should_merge_texts(text1_, text2_) ==
    LET text1 == Strip(text1_)
        text2 == Strip(text2_)
    IN  IF LastIn(text1, Terminal) THEN FALSE
        ELSE IF FirstIn(text2, Upper)
             THEN \/ LastIn(text1, {",", FwComma, "-"} \cup White)
                  \/ Len(text1) < 30
                  \/ ~HasChar(text1, Terminal)
        ELSE IF FirstIn(text2, Lower) THEN TRUE
        ELSE IF LastIn(text1, {"-", ",", FwComma} \cup White) THEN TRUE
        ELSE Len(text1) < 50 /\ Len(text2) < 50

\* a space only before a lowercase continuation
SmartJoinSpaceLower(text1_, text2_) ==
    LET text1 == Strip(text1_)
        text2 == Strip(text2_)
    IN  IF EndsWith(text1, <<"-">>) THEN SubSeq(text1, 1, Len(text1) - 1) \o text2
        ELSE IF FirstIn(text2, Lower) THEN text1 \o <<" ">> \o text2
        ELSE text1 \o text2

\* _smart_join_texts that joins a lowercase continuation without a space
SmartJoinNoSpace(text1_, text2_) ==
    LET text1 == Strip(text1_)
        text2 == Strip(text2_)
    IN  IF EndsWith(text1, <<"-">>) THEN SubSeq(text1, 1, Len(text1) - 1) \o text2
        ELSE IF EndsWith(text1, <<" ">>) THEN text1 \o text2
        ELSE IF FirstIn(text2, Lower) THEN text1 \o text2
        ELSE text1 \o <<" ">> \o text2

_smart_join_texts(text1_, text2_) ==
    LET text1 == Strip(text1_)
        text2 == Strip(text2_)
    IN  IF EndsWith(text1, <<"-">>) THEN SubSeq(text1, 1, Len(text1) - 1) \o text2
        ELSE IF EndsWith(text1, <<" ">>) THEN text1 \o text2
        ELSE IF FirstIn(text2, Lower) THEN text1 \o <<" ">> \o text2
        ELSE IF LastIn(text1, {",", FwComma, ";", FwSemi}) THEN text1 \o <<" ">> \o text2
        ELSE text1 \o <<" ">> \o text2

\* --------------------------------------------------- clean_text_content
\* re.sub(r'\s+', ' ', text)
RECURSIVE CollapseWhite(_)
CollapseWhite(t) ==
    LET n == LeadRunNot(t, White)
        rest == SubSeq(t, n + 1, Len(t))
        w == LeadRun(rest, White)
    IN  IF rest = <<>> THEN t
        ELSE SubSeq(t, 1, n) \o <<" ">> \o CollapseWhite(SubSeq(rest, w + 1, Len(rest)))

\* re.sub(r'\s+([cls])', r'\1', text)
RECURSIVE DropWhiteBefore(_, _)
DropWhiteBefore(t, cls) ==
    LET n == LeadRunNot(t, White)
        rest == SubSeq(t, n + 1, Len(t))
        w == LeadRun(rest, White)
        after == SubSeq(rest, w + 1, Len(rest))
    IN  IF rest = <<>> THEN t
        ELSE SubSeq(t, 1, n)
             \o (IF FirstIn(after, cls) THEN <<>> ELSE SubSeq(rest, 1, w))
             \o DropWhiteBefore(after, cls)

\* re.sub(r'\(\s+', '(', text)
RECURSIVE DropWhiteAfterParen(_)
DropWhiteAfterParen(t) ==
    LET n == LeadRunNot(t, {"("})
        rest == SubSeq(t, n + 2, Len(t))
        w == LeadRun(rest, White)
    IN  IF n = Len(t) THEN t
        ELSE SubSeq(t, 1, n + 1) \o DropWhiteAfterParen(SubSeq(rest, w + 1, Len(rest)))

clean_text_content(text) ==
    IF text = <<>> THEN text
    ELSE LET t1 == Strip(CollapseWhite(text))
             t2 == DropWhiteBefore(t1, Terminal)
             t3 == DropWhiteBefore(t2, {",", FwComma, ";", FwSemi})
             t4 == DropWhiteAfterParen(t3)
         IN  DropWhiteBefore(t4, {")"})

\* ------------------------------------------------- apply_html_formatting
OpenI == Str("<i>")
CloseI == Str("</i>")
OpenB == Str("<b>")
CloseB == Str("</b>")

\* str.replace(old, new), old not empty
RECURSIVE Replace(_, _, _)
Replace(t, old, new) ==
    LET hits == {k \in 1..(Len(t) - Len(old) + 1) : OccursAt(t, old, k)}
        k == MinOf(hits)
    IN  IF hits = {} THEN t
        ELSE SubSeq(t, 1, k - 1) \o new
             \o Replace(SubSeq(t, k + Len(old), Len(t)), old, new)

\* the list italic_parts: the stripped texts of the italic spans found in text
RECURSIVE ItalicParts(_, _)
ItalicParts(styles, text) ==
    IF styles = <<>> THEN <<>>
    ELSE LET style_text == Strip(Head(styles).text)
             keep == /\ Head(styles).is_italic
                     /\ style_text # <<>>
                     /\ Contains(text, style_text)
         IN  (IF keep THEN <<style_text>> ELSE <<>>) \o ItalicParts(Tail(styles), text)

\* the loop over italic_parts, left after its first iteration
MarkItalicFirstOnly(formatted_text, italic_parts) ==
    IF italic_parts = <<>> THEN formatted_text
    ELSE LET italic_part == Head(italic_parts)
             wrapped == OpenI \o italic_part \o CloseI
         IN  IF ~Contains(formatted_text, wrapped)
             THEN Replace(formatted_text, italic_part, wrapped)
             ELSE formatted_text

\* the loop over italic_parts
RECURSIVE MarkItalic(_, _)
MarkItalic(formatted_text, italic_parts) ==
    IF italic_parts = <<>> THEN formatted_text
    ELSE LET italic_part == Head(italic_parts)
             wrapped == OpenI \o italic_part \o CloseI
         IN  MarkItalic(IF ~Contains(formatted_text, wrapped)
                        THEN Replace(formatted_text, italic_part, wrapped)
                        ELSE formatted_text,
                        Tail(italic_parts))

\* text_block is a block dict by value
apply_html_formatting(text_block) ==
    IF text_block.styles = <<>> THEN text_block.text
    ELSE IF AnyItalic(text_block.styles)
         THEN MarkItalic(text_block.text, ItalicParts(text_block.styles, text_block.text))
         ELSE text_block.text

\* ------------------------------------------------ classification rules
\* load_classification_rules(None): the built-in defaults
author_keywords == <<Str("author"), <<"u4f5c", "u8005">>, Str("by")>>
translator_keywords == <<Str("translator"), <<"u7ffb", "u8b6f">>, Str("translated by")>>
illustrator_keywords == <<Str("illustrator"), <<"u63d2", "u756b">>, Str("illustrated by")>>

\* the dict default_rules; a pattern is held whole, as one item
default_rules ==
    [title_patterns |-> <<"^[A-Z][A-Za-z\\s:]+$", ".{20,}">>,
     chinese_title_patterns |-> <<"[\\u4e00-\\u9fff]{3,}">>,
     author_keywords |-> author_keywords,
     translator_keywords |-> translator_keywords,
     illustrator_keywords |-> illustrator_keywords,
     publisher_keywords |->
         <<Str("publisher"), <<"u51fa", "u7248">>, Str("published by")>>,
     category_keywords |->
         <<Str("category"), <<"u985e", "u5225">>, Str("type"), Str("genre")>>,
     exclude_from_detail |->
         <<Str("publisher:"), Str("date:"), Str("pages:"), Str("size:"),
           Str("volume:"), Str("isbn:"), Str("price:"), Str("format:")>>]

\* what the constructor is given: no file (None, or a path that does not
\* exist), a file json.load cannot parse, or the value json.load returns:
\* an object as the sequence of its <<key, value>> members, an array as the
\* sequence of its items (an item that is an array is the sequence of its
\* own items, any other item is the one-item sequence of itself), or a scalar
NoFile == [kind |-> "none"]
Unparseable == [kind |-> "unparseable"]
JsonObject(members) == [kind |-> "object", items |-> members]
JsonArray(items) == [kind |-> "array", items |-> items]
JsonScalar == [kind |-> "scalar"]

\* d[key] = value
SetKey(d, key, value) ==
    [k \in DOMAIN d \cup {key} |-> IF k = key THEN value ELSE d[k]]

\* dict.update over a sequence of items, done in order: an item that is not a
\* sequence of length two raises, and the keys stored before it stay stored
RECURSIVE UpdateFrom(_, _)
UpdateFrom(d, items) ==
    IF items = <<>> \/ Len(Head(items)) # 2 THEN d
    ELSE UpdateFrom(SetKey(d, Head(items)[1], Head(items)[2]), Tail(items))

\* the dict the constructor stores in classification_rules
load_classification_rules(config_file) ==
    IF config_file.kind \in {"object", "array"}
    THEN UpdateFrom(default_rules, config_file.items)
    ELSE default_rules

\* ------------------------------------------------------- title detection
\* sorted(blocks, key=avg_font_size, reverse=True): stable, largest first
RECURSIVE SortBySize(_)
SortBySize(bs) ==
    IF bs = <<>> THEN <<>>
    ELSE LET m == CHOOSE k \in 1..Len(bs) :
                    /\ \A j \in 1..Len(bs) : bs[j].avg_font_size <= bs[k].avg_font_size
                    /\ \A j \in 1..(k - 1) : bs[j].avg_font_size < bs[k].avg_font_size
         IN  <<bs[m]>> \o SortBySize(SubSeq(bs, 1, m - 1) \o SubSeq(bs, m + 1, Len(bs)))

\* len(text.split())
RECURSIVE CountTokens(_)
CountTokens(t) ==
    LET w == LeadRun(t, White)
        rest == SubSeq(t, w + 1, Len(t))
        n == LeadRunNot(rest, White)
    IN  IF rest = <<>> THEN 0
        ELSE 1 + CountTokens(SubSeq(rest, n + 1, Len(rest)))

\* re.search(r'\d{4}', text)
FourDigits(t) ==
    \E k \in 1..(Len(t) - 3) : \A j \in k..(k + 3) : t[j] \in Digit

\* the expression is_title_like
IsTitleLike(text) ==
    \/ /\ FirstIn(text, Upper)
       /\ Len(text) >= 2
       /\ \A k \in 2..Len(text) : text[k] \in (Letter \cup White \cup {":"})
    \/ HasChar(text, Letter) /\ CountTokens(text) >= 2
    \/ HasChar(text, CJK) /\ HasChar(text, Letter)

\* the expression is_not_title
IsNotTitle(text) ==
    \/ Contains(ToLower(text), Str("publisher"))
    \/ Contains(ToLower(text), Str("isbn"))
    \/ Contains(ToLower(text), Str("pages"))
    \/ Contains(ToLower(text), Str("price"))
    \/ StartsWith(ToLower(text), Str("by "))
    \/ FourDigits(text)
    \/ CountTokens(text) < 2

\* sorted_blocks[:5]: how many of the largest blocks are looked at
TopCount == 5

\* the candidates taken without looking at font size or boldness
RECURSIVE TitleCandidatesAnyFont(_)
TitleCandidatesAnyFont(blocks) ==
    IF blocks = <<>> THEN <<>>
    ELSE LET block == Head(blocks)
             text == Strip(block.text)
             has_bold == AnyBold(block.styles)
             ok == /\ Len(text) > 10 /\ Len(text) < 200
                   /\ IsTitleLike(text)
                   /\ ~IsNotTitle(text)
             score == block.avg_font_size + (IF has_bold THEN Sz(2) ELSE 0)
         IN  (IF ok THEN <<[text |-> text, score |-> score, block |-> block]>> ELSE <<>>)
             \o TitleCandidatesAnyFont(Tail(blocks))

\* the list title_candidates, over the first five of sorted_blocks (by value)
RECURSIVE TitleCandidates(_)
TitleCandidates(blocks) ==
    IF blocks = <<>> THEN <<>>
    ELSE LET block == Head(blocks)
             text == Strip(block.text)
             is_large_font == block.avg_font_size >= Sz(14)
             has_bold == AnyBold(block.styles)
             ok == /\ Len(text) > 10 /\ Len(text) < 200
                   /\ IsTitleLike(text)
                   /\ ~IsNotTitle(text)
                   /\ (is_large_font \/ has_bold)
             score == block.avg_font_size + (IF has_bold THEN Sz(2) ELSE 0)
         IN  (IF ok THEN <<[text |-> text, score |-> score, block |-> block]>> ELSE <<>>)
             \o TitleCandidates(Tail(blocks))

\* the last of the candidates with the highest score
BestCandidateLast(cands) ==
    cands[CHOOSE k \in 1..Len(cands) :
              /\ \A j \in 1..Len(cands) : cands[j].score <= cands[k].score
              /\ \A j \in (k + 1)..Len(cands) : cands[j].score < cands[k].score]

\* title_candidates.sort(key=score, reverse=True)[0]
BestCandidate(cands) ==
    cands[CHOOSE k \in 1..Len(cands) :
              /\ \A j \in 1..Len(cands) : cands[j].score <= cands[k].score
              /\ \A j \in 1..(k - 1) : cands[j].score < cands[k].score]

\* the value stored in classified_data["Title"]
TitleValue(block) ==
    LET formatted_title == apply_html_formatting(block)
    IN  IF ~StartsWith(formatted_title, OpenB)
        THEN OpenB \o formatted_title \o CloseB
        ELSE formatted_title

\* ------------------------------------------------------- localized title
CountIn(t, cls) == Cardinality({k \in 1..Len(t) : t[k] \in cls})

Max(a, b) == IF a >= b THEN a ELSE b

publication_words ==
    <<<<"u51fa", "u7248">>, <<"u9801", "u6578">>, <<"u50f9", "u683c">>, Str("ISBN")>>

\* the condition under which a block is taken as the localized title
IsChineseTitle(block, title) ==
    LET text == Strip(block.text)
        chinese_chars == CountIn(text, CJK)
        total_chars == Len(text) - CountIn(text, White)
    IN  /\ chinese_chars >= 3
        /\ 10 * chinese_chars > 6 * Max(total_chars, 1)
        /\ Len(text) > 5 /\ Len(text) < 100
        /\ text # Replace(Replace(title, OpenB, <<>>), CloseB, <<>>)
        /\ ~\E k \in 1..Len(publication_words) : Contains(text, publication_words[k])

\* ---------------------------------------------------------- person fields
\* the pattern built from keyword does not compile: a parenthesis is left
\* open or closed without being opened, or "*" has nothing to repeat.  A
\* keyword of the model is a literal text or one that does not compile.
RegexError(keyword) ==
    \/ CountIn(keyword, {"("}) # CountIn(keyword, {")"})
    \/ \E k \in 1..Len(keyword) :
           CountIn(SubSeq(keyword, 1, k), {")"}) > CountIn(SubSeq(keyword, 1, k), {"("})
    \/ \E k \in 1..Len(keyword) :
           keyword[k] = "*" /\ (k = 1 \/ keyword[k - 1] = "(")

\* the exception re.search raises, in the place of a name
ReError == <<"re.error">>

\* t without its leading characters in cls
DropLead(t, cls) == SubSeq(t, LeadRun(t, cls) + 1, Len(t))

\* t without its trailing characters in cls
DropTrail(t, cls) == SubSeq(t, 1, Len(t) - TrailRun(t, cls))

\* every character of t lies in cls
AllIn(t, cls) == \A k \in 1..Len(t) : t[k] \in cls

\* t matches \d+\s*$ from its first character
IsDigitsTail(t) == FirstIn(t, Digit) /\ AllIn(DropLead(t, Digit), White)

\* t matches \s*\d+\s*$ from its first character
IsPageTail(t) == IsDigitsTail(DropLead(t, White))

\* the lengths g, up to run, of a group line[s..s+g-1] after which the pattern
\* (?:\s*\d+\s*$|$) matches
GroupLens(line, s, run) ==
    {g \in 1..run :
        \/ s + g - 1 = Len(line)
        \/ IsPageTail(SubSeq(line, s + g, Len(line)))}

\* the groups that can start at position s: pairs <<s, g>>
GroupsFrom(line, excluded, s) ==
    {<<s, g>> : g \in GroupLens(line, s, LeadRunNot(SubSeq(line, s, Len(line)), excluded))}

\* the match of  keyword[:\s]*([^excluded]+?)(?:\s*\d+\s*$|$)  that starts at
\* position p of line, as the set of pairs <<s, g>>: the group is line[s..s+g-1]
GroupsAt(line, keyword, excluded, p) ==
    UNION {GroupsFrom(line, excluded, s) :
              s \in (p + Len(keyword))
                    ..(p + Len(keyword)
                         + LeadRun(SubSeq(line, p + Len(keyword), Len(line)),
                                   {":"} \cup White))}

\* the group of the match among groups: [:\s]* is greedy, so the group starts
\* as late as it can; +? is lazy, so it is the shortest from that start
GroupStart(groups) == CHOOSE a \in {sg[1] : sg \in groups} : \A sg \in groups : sg[1] <= a
GroupLen(groups, s) == MinOf({sg[2] : sg \in {x \in groups : x[1] = s}})
GroupText(line, s, g) == <<SubSeq(line, s, s + g - 1)>>
GroupOf(line, groups) == GroupText(line, GroupStart(groups), GroupLen(groups, GroupStart(groups)))

\* the start positions at which the pattern matches; lowered is line.lower()
MatchStarts(line, lowered, keyword, excluded) ==
    {p \in 1..Len(line) :
        /\ OccursAt(lowered, keyword, p)
        /\ GroupsAt(line, keyword, excluded, p) # {}}

\* the leftmost of the match starts
FirstMatch(line, keyword, excluded, starts) ==
    IF starts = {} THEN <<>>
    ELSE GroupOf(line, GroupsAt(line, keyword, excluded, MinOf(starts)))

\* re.search(rf"{keyword}[:\s]*([^excluded]+?)(?:\s*\d+\s*$|$)", line, re.IGNORECASE)
\* <<>> when there is no match, else <<group(1)>>
PersonSearch(line, keyword, excluded) ==
    FirstMatch(line, keyword, excluded,
               MatchStarts(line, ToLower(line), ToLower(keyword), excluded))

\* re.sub(r'\s*\d+\s*$', '', t), given t without its trailing whitespace
StripDigitsEnd(t, t1) == IF LastIn(t1, Digit) THEN DropTrail(DropTrail(t1, Digit), White) ELSE t

\* re.sub(r'\s*\d+\s*$', '', t)
StripPageNumber(t) == StripDigitsEnd(t, DropTrail(t, White))

\* re.sub(r'[,，。\.]+$', '', t)
StripTrailPunct(t) == DropTrail(t, {",", FwComma, FwStop, "."})

\* t matches s?\s*\d*\s*$ from its first character
IsPagesRest(t) ==
    AllIn(DropLead(DropLead(IF FirstIn(t, {"s"}) THEN Tail(t) ELSE t, White), Digit), White)

\* t matches pages?\s*\d*\s*$ from its first character
IsPagesWord(t) == StartsWith(t, Str("page")) /\ IsPagesRest(SubSeq(t, 5, Len(t)))

\* t matches \s*pages?\s*\d*\s*$ from its first character (case-sensitive:
\* the flag is passed in the position of the count argument)
IsPagesTail(t) == IsPagesWord(DropLead(t, White))

\* t cut at the first of the positions hits, whole if there is none
CutAtFirst(t, hits) == IF hits = {} THEN t ELSE SubSeq(t, 1, MinOf(hits) - 1)

\* re.sub(r'\s*pages?\s*\d*\s*$', '', t, re.IGNORECASE)
StripPagesInfo(t) == CutAtFirst(t, {k \in 1..Len(t) : IsPagesTail(SubSeq(t, k, Len(t)))})

\* not re.search(r'^\d+$', t)
NotAllDigits(t) == t = <<>> \/ LeadRun(t, Digit) < Len(t)

\* the test  len(name) > 1 and not re.search(r'^\d+$', name)
Accepted(name) == Len(name) > 1 /\ NotAllDigits(name)

\* the cleaning of a matched group, <<>> standing for no match
CleanAuthor(m) ==
    IF m = <<>> THEN <<>> ELSE <<StripTrailPunct(StripPageNumber(Strip(m[1])))>>
CleanTranslator(m) ==
    IF m = <<>> THEN <<>>
    ELSE <<StripPagesInfo(StripTrailPunct(StripPageNumber(Strip(m[1]))))>>
CleanIllustrator(m) ==
    IF m = <<>> THEN <<>> ELSE <<StripTrailPunct(StripPageNumber(Strip(m[1])))>>

\* what one author keyword yields for a line: <<>> or <<author>>, not yet accepted
AuthorTry(line_clean, line_lower, keyword) ==
    IF /\ Contains(line_lower, keyword)
       /\ ~Contains(line_lower, Str("translator"))
       /\ ~Contains(line_lower, Str("illustrator"))
    THEN IF RegexError(keyword) THEN <<ReError>>
         ELSE CleanAuthor(PersonSearch(line_clean, keyword, {","} \cup Digit))
    ELSE <<>>

\* the author of a line: <<>> when no keyword yields one, else <<author>>
RECURSIVE AuthorOf(_, _)
AuthorPick(author, line_clean, keywords) ==
    IF author = <<ReError>> THEN author
    ELSE IF author # <<>> /\ Accepted(author[1]) THEN author
    ELSE AuthorOf(line_clean, Tail(keywords))
AuthorOf(line_clean, keywords) ==
    IF keywords = <<>> THEN <<>>
    ELSE AuthorPick(AuthorTry(line_clean, ToLower(line_clean), Head(keywords)),
                    line_clean, keywords)

\* what one translator keyword yields for a line
TranslatorTry(line_clean, line_lower, keyword) ==
    IF Contains(line_lower, keyword)
    THEN IF RegexError(keyword) THEN <<ReError>>
         ELSE CleanTranslator(PersonSearch(line_clean, keyword, {","}))
    ELSE <<>>

\* the translator of a line
RECURSIVE TranslatorOf(_, _)
TranslatorPick(translator, line_clean, keywords) ==
    IF translator = <<ReError>> THEN translator
    ELSE IF translator # <<>> /\ Accepted(translator[1]) THEN translator
    ELSE TranslatorOf(line_clean, Tail(keywords))
TranslatorOf(line_clean, keywords) ==
    IF keywords = <<>> THEN <<>>
    ELSE TranslatorPick(TranslatorTry(line_clean, ToLower(line_clean), Head(keywords)),
                        line_clean, keywords)

\* what one illustrator keyword yields for a line
IllustratorTry(line_clean, line_lower, keyword) ==
    IF /\ Contains(line_lower, keyword)
       /\ ~Contains(line_lower, Str("publisher"))
       /\ ~Contains(line_lower, <<"u51fa", "u7248">>)
    THEN IF RegexError(keyword) THEN <<ReError>>
         ELSE CleanIllustrator(PersonSearch(line_clean, keyword, {","}))
    ELSE <<>>

\* the illustrator of a line
RECURSIVE IllustratorOf(_, _)
IllustratorPick(illustrator, line_clean, keywords) ==
    IF illustrator = <<ReError>> THEN illustrator
    ELSE IF /\ illustrator # <<>>
            /\ Accepted(illustrator[1])
            /\ ~Contains(ToLower(illustrator[1]), Str("publish"))
    THEN illustrator
    ELSE IllustratorOf(line_clean, Tail(keywords))
IllustratorOf(line_clean, keywords) ==
    IF keywords = <<>> THEN <<>>
    ELSE IllustratorPick(IllustratorTry(line_clean, ToLower(line_clean), Head(keywords)),
                         line_clean, keywords)

\* ------------------------------------------------- Detail and More Info
\* " ".join(lines)
RECURSIVE JoinLines(_)
JoinLines(lines) ==
    IF lines = <<>> THEN <<>>
    ELSE IF Len(lines) = 1 THEN lines[1]
    ELSE lines[1] \o <<" ">> \o JoinLines(Tail(lines))

\* any(keyword in t for keyword in words)
ContainsAny(t, words) == \E k \in 1..Len(words) : Contains(t, words[k])

\* the keyword list of the expression is_exclude
exclude_words ==
    <<Str("publisher"), Str("isbn"), Str("pages"), Str("price"), Str("format"),
      Str("volume"), <<"u51fa", "u7248", "u793e">>, <<"u9801", "u6578">>,
      <<"u50f9", "u683c">>, <<"u683c", "u5f0f">>, <<"u5c3a", "u5bf8">>,
      <<"u7248", "u6b21">>, Str("copyright"), <<"u7248", "u6b0a">>, Str("printed"),
      <<"u5370", "u5237">>, Str("edition"), <<"u7248", "u672c">>,
      Str("publication date"), <<"u51fa", "u7248", "u65e5", "u671f">> >>

\* the keyword list of the expression is_publisher_info
publisher_info_words ==
    <<Str("publisher"), Str("isbn"), Str("pages"), Str("price"), Str("format"),
      <<"u51fa", "u7248", "u793e">>, <<"u9801", "u6578">>, <<"u50f9", "u683c">>,
      <<"u683c", "u5f0f">>, <<"u7248", "u6b0a">> >>

\* the expression is_already_used
IsAlreadyUsed(line_clean, data) ==
    \/ line_clean = Replace(Replace(data.Title, OpenB, <<>>), CloseB, <<>>)
    \/ line_clean = data.ChineseTitle
    \/ data.Author # <<>> /\ Contains(line_clean, data.Author)
    \/ data.Translator # <<>> /\ Contains(line_clean, data.Translator)
    \/ data.Illustrator # <<>> /\ Contains(line_clean, data.Illustrator)

\* the expression is_meaningful
IsMeaningful(line_clean) ==
    /\ Len(line_clean) > 10
    /\ NotAllDigits(line_clean)
    /\ ~(Len(line_clean) >= 2 /\ AllIn(line_clean, Upper))

\* the test under which a line is appended to detail_content
KeepDetail(line_clean, used, data) ==
    /\ line_clean # <<>>
    /\ line_clean \notin used
    /\ ~ContainsAny(ToLower(line_clean), exclude_words)
    /\ ~IsAlreadyUsed(line_clean, data)
    /\ IsMeaningful(line_clean)

\* the list detail_content
RECURSIVE DetailContent(_, _, _)
DetailContent(lines, used, data) ==
    IF lines = <<>> THEN <<>>
    ELSE (IF KeepDetail(Strip(Head(lines)), used, data)
          THEN <<Strip(Head(lines))>> ELSE <<>>)
         \o DetailContent(Tail(lines), used, data)

\* the length beyond which detail_text is cut
DetailLimit == 500

\* the cut of detail_text left out
TruncateNever(detail_text) == detail_text

\* detail_text[:500] + "..." when detail_text is longer than 500
Truncate(detail_text) ==
    IF Len(detail_text) > DetailLimit
    THEN SubSeq(detail_text, 1, DetailLimit) \o Str("...")
    ELSE detail_text

\* the test under which a line is appended to info_content
KeepInfo(line_clean, used) ==
    /\ line_clean # <<>>
    /\ line_clean \notin used
    /\ ContainsAny(ToLower(line_clean), publisher_info_words)

\* the list info_content
RECURSIVE InfoContent(_, _)
InfoContent(lines, used) ==
    IF lines = <<>> THEN <<>>
    ELSE (IF KeepInfo(Strip(Head(lines)), used) THEN <<Strip(Head(lines))>> ELSE <<>>)
         \o InfoContent(Tail(lines), used)

\* --------------------------------------------------------------- Category
Comics == <<"u6f2b", "u756b", "u985e">>
Fiction == <<"u5c0f", "u8aaa", "u985e">>
Education == <<"u6559", "u80b2", "u985e">>

\* the if/elif chain with its first two branches exchanged
CategoryFictionFirst(full_text, full_text_lower) ==
    IF \/ Contains(full_text_lower, Str("novel"))
       \/ Contains(full_text, <<"u5c0f", "u8aaa">>)
    THEN Fiction
    ELSE IF \/ Contains(full_text_lower, Str("comic"))
            \/ Contains(full_text_lower, Str("manga"))
            \/ Contains(full_text, <<"u6f2b", "u756b">>)
    THEN Comics
    ELSE IF \/ Contains(full_text_lower, Str("textbook"))
            \/ Contains(full_text, <<"u6559", "u79d1", "u66f8">>)
    THEN Education
    ELSE <<>>

\* the value the if/elif chain gives Category, <<>> when no branch is taken
CategoryOf(full_text, full_text_lower) ==
    IF \/ Contains(full_text_lower, Str("comic"))
       \/ Contains(full_text_lower, Str("manga"))
       \/ Contains(full_text, <<"u6f2b", "u756b">>)
    THEN Comics
    ELSE IF \/ Contains(full_text_lower, Str("novel"))
            \/ Contains(full_text, <<"u5c0f", "u8aaa">>)
    THEN Fiction
    ELSE IF \/ Contains(full_text_lower, Str("textbook"))
            \/ Contains(full_text, <<"u6559", "u79d1", "u66f8">>)
    THEN Education
    ELSE <<>>

\* ------------------------------------------------------------- fragments
\* a style span, as extract_text_with_styles builds it
Span(text, italic, bold) == [text |-> text, is_italic |-> italic, is_bold |-> bold]

\* a text block of one span covering its text
Frag(text, size, italic, bold) ==
    [page |-> 1, text |-> text, styles |-> <<Span(text, italic, bold)>>,
     avg_font_size |-> Sz(size)]

\* the block b as found on page n
OnPage(b, n) == [b EXCEPT !.page = n]

ScenarioA1 == Frag(Str("Chapter One: Origins"), 18, FALSE, TRUE)
ScenarioA2 == Frag(Str("is a story of courage."), 12, FALSE, FALSE)
HyphenShort == Frag(Str("co-"), 12, FALSE, FALSE)
HyphenLong == Frag(Str("It ended. Then he began the re-"), 12, FALSE, FALSE)
UpperStart == Frag(Str("Op"), 12, FALSE, FALSE)
DigitStart == Frag(Str("9 lives"), 12, FALSE, FALSE)
CJKStart == Frag(<<"u6c11", "u4e3b">>, 12, FALSE, FALSE)

\* open texts with sentence-terminal punctuation inside but not at the end
TerminalInside == Frag(Str("It ended. Then he began the rest"), 12, FALSE, FALSE)
ShortTerminalInside == Frag(Str("No. 5 seat"), 12, FALSE, FALSE)
CommaEnd == Frag(Str("It ended. Then he began the rest,"), 12, FALSE, FALSE)
\* a text of 60 characters without sentence-terminal punctuation
LongPlain ==
    OnPage(Frag(Str("1977 was the year in which he crossed over to the other side"),
                12, FALSE, FALSE), 2)
\* a trigger by its bold span only, whose text starts with a lowercase letter
BoldLower == Frag(Str("and so on"), 12, FALSE, TRUE)
\* a line without text: no spans, and the average size of no spans
Blank == [page |-> 1, text |-> <<" ">>, styles |-> <<>>, avg_font_size |-> 0]

MergePool ==
    {ScenarioA1, ScenarioA2, HyphenShort, HyphenLong, UpperStart, DigitStart, CJKStart,
     TerminalInside, ShortTerminalInside, CommaEnd, LongPlain, BoldLower, Blank}

ScenarioB1 ==
    Frag(Str("In 1977, Ah Wen had been on the other side of history: recruited as a"),
         12, TRUE, FALSE)
ScenarioB2 ==
    Frag(Str("spy. His assignment was to infiltrate the campaign headquarters"),
         12, TRUE, FALSE)
ScenarioB3 == Frag(Str("of an independent candidate."), 12, TRUE, FALSE)

\* a line whose two italic spans overlap: one is a substring of the other
LongSpanFirst ==
    [page |-> 1, text |-> Str("ab"),
     styles |-> <<Span(Str("ab"), TRUE, FALSE), Span(Str("a"), TRUE, FALSE)>>,
     avg_font_size |-> Sz(12)]
ShortSpanFirst ==
    [page |-> 1, text |-> Str("ab"),
     styles |-> <<Span(Str("a"), TRUE, FALSE), Span(Str("ab"), TRUE, FALSE)>>,
     avg_font_size |-> Sz(12)]

ItalicPool == {ScenarioB1, ScenarioB2, ScenarioB3, LongSpanFirst, ShortSpanFirst}

\* a continuation in a smaller font
Small10 == Frag(Str("and so it went"), 10, FALSE, FALSE)

\* the fragments of the longer documents
SeqPool == {ScenarioB1, ScenarioB2, ScenarioB3, Small10, Blank}

Ideographs == <<"u6c11", "u4e3b", "u661f", "u706b", "u885d", "u7834", "u6212", "u56b4">>

ScenarioC == Frag(Str("Translator: Chen-Yu Chang, Noax Tao and Lee-Hang Chen 23"), 12, FALSE, FALSE)
TranslatedBy == Frag(Str("translated by Bob Lee"), 12, FALSE, FALSE)
IllustratedBy == Frag(Str("illustrated by Bob Lee"), 12, FALSE, FALSE)
TitleBy == Frag(Str("Tales by Bob Smith"), 18, FALSE, FALSE)
MixedTitle == Frag(Ideographs \o Str(" Ab"), 18, FALSE, FALSE)
MixedTitleItalic ==
    [page |-> 1, text |-> Ideographs \o Str(" Ab"),
     styles |-> <<Span(Ideographs, FALSE, FALSE), Span(Str("Ab"), TRUE, FALSE)>>,
     avg_font_size |-> Sz(18)]
ChineseOnly == Frag(Ideographs, 14, FALSE, FALSE)
ChineseItalic == Frag(Ideographs, 12, TRUE, FALSE)
AuthorLine == Frag(Str("Author: Amy Tan 12"), 12, FALSE, FALSE)
TranslatorLine == Frag(Str("Translator: Bob Lee 23"), 12, FALSE, FALSE)
IllustratorLine == Frag(Str("Illustrator: Cy Wu."), 12, FALSE, FALSE)

ClassifyPool ==
    {ScenarioC, TranslatedBy, IllustratedBy, TitleBy, MixedTitle, MixedTitleItalic,
     ChineseOnly, ChineseItalic, AuthorLine, TranslatorLine, IllustratorLine}

\* t repeated n times
RECURSIVE Repeat(_, _)
Repeat(t, n) == IF n = 0 THEN <<>> ELSE t \o Repeat(t, n - 1)

\* lines of 250 and of 249 characters, and a short one, all kept for Detail
Long250 ==
    Frag(Str("The tide ") \o Repeat(Str("rolled on and "), 17) \o Str("on."),
         12, FALSE, FALSE)
Long249 ==
    Frag(Str("The tide ") \o Repeat(Str("rolled on and "), 17) \o Str("on"),
         12, FALSE, FALSE)
ShortDetail == Frag(Str("A quiet story."), 12, FALSE, FALSE)

DetailPool == {Long250, Long249, ShortDetail}

CategoryPool ==
    {Frag(Str("Comic"), 12, FALSE, FALSE), Frag(Str("manga"), 12, FALSE, FALSE),
     Frag(<<"u6f2b", "u756b">>, 12, FALSE, FALSE),
     Frag(Str("Novel"), 12, FALSE, FALSE), Frag(<<"u5c0f", "u8aaa">>, 12, FALSE, FALSE),
     Frag(Str("textbook"), 12, FALSE, FALSE),
     Frag(<<"u6559", "u79d1", "u66f8">>, 12, FALSE, FALSE)}

WriterLine == Frag(Str("writer: Amy Tan"), 12, FALSE, FALSE)
ParenLine == Frag(Str("Written by (Amy Tan)"), 12, FALSE, FALSE)

ConfigPool == {WriterLine, ParenLine, AuthorLine}

\* title-shaped lines of several sizes, and a large line that is too short
\* for a title; each ends a sentence, so none is merged into another
Filler20 == Frag(Str("1977."), 20, FALSE, FALSE)
Plain14 == Frag(Str("A tale of two towns."), 14, FALSE, FALSE)
Bold12 == Frag(Str("The lost road home."), 12, FALSE, TRUE)
Bold13 == Frag(Str("Songs of the north."), 13, FALSE, TRUE)
Plain12 == Frag(Str("A walk in the hills."), 12, FALSE, FALSE)

TitlePool == {Filler20, Plain14, Bold12, Bold13, Plain12}

\* lines with publication words, a line that names the illustrator again,
\* and a title that holds the word "format"
VolumeLine == Frag(Str("Volume 2 of the saga."), 12, FALSE, FALSE)
PublisherLine == Frag(Str("Publisher: Ace Books."), 12, FALSE, FALSE)
CyWuLine == Frag(Str("Cy Wu paints the northern sea."), 12, FALSE, FALSE)
FormatTitle == Frag(Str("Information Age Stories."), 18, FALSE, FALSE)
\* a second illustrator line, and one whose name is a publishing house
IllustratorTwo == Frag(Str("Illustrator: Di Xu."), 12, FALSE, FALSE)
PublishingLine == Frag(Str("Illustrator: Ace Publishing."), 12, FALSE, FALSE)

InfoPool ==
    {VolumeLine, PublisherLine, IllustratorLine, CyWuLine, FormatTitle, IllustratorTwo,
     PublishingLine}

\* documents with one block more than the title search looks at
CrowdedDocs == [1..(TopCount + 1) -> {Filler20, Plain14}]

\* configuration files
CfgWriter == JsonObject(<< <<"author_keywords", <<Str("writer")>> >> >>)
CfgParen == JsonObject(<< <<"author_keywords", <<Str("author"), Str("by (")>> >> >>)
CfgPairsThenNumber ==
    JsonArray(<< <<"author_keywords", <<Str("writer")>> >>, <<"5">> >>)

Configs == {NoFile, Unparseable, JsonScalar, CfgWriter, CfgParen, CfgPairsThenNumber}

SeqsUpTo(S, n) == UNION {[1..k -> S] : k \in 0..n}

\* the documents of at most two fragments of S
UpToPairs(S) == SeqsUpTo(S, 2)

\* the documents handed to the engine built without a configuration file
Inputs ==
    UpToPairs(MergePool) \cup UpToPairs(ItalicPool) \cup UpToPairs(ClassifyPool)
        \cup SeqsUpTo(SeqPool, MaxFrags)
        \cup SeqsUpTo(DetailPool, MaxLines) \cup SeqsUpTo(CategoryPool, MaxLines)
        \cup UpToPairs(TitlePool) \cup CrowdedDocs \cup UpToPairs(InfoPool)

\* the documents handed to the engines built with each configuration file
ConfigInputs == SeqsUpTo(ConfigPool, MaxLines)

\* a run: the document, and the file the engine was constructed with
Runs == (Inputs \X {NoFile}) \cup (ConfigInputs \X Configs)

\* ------------------------------------------------------------------ state
VARIABLES
    text_blocks,     \* the caller's list of block dicts; styles is a list reference
    lists,           \* the style-span list objects, by reference
    pc,              \* "idle", "merge", "format", "title", "chinese", "person", "detail",
                     \* "info", "category", "done"
    caller,          \* who called clean_and_merge_paragraphs: "test" or "classify"
    direct_calls,    \* calls made by the caller itself so far
    idx,             \* position of the for loop in text_blocks
    merged_blocks,   \* local of clean_and_merge_paragraphs
    current_block,   \* local of clean_and_merge_paragraphs; <<>> is None
    at_entry,        \* history: the blocks, by value, when the running call began
    returned,        \* history: what each finished call returned, by value
    all_formatted_text,  \* local of smart_classify_content
    classified_data,     \* local of smart_classify_content, the record returned
    used_lines,          \* local of smart_classify_content
    line_idx,            \* position of the person-field loop in all_formatted_text
    origin,          \* history: the paragraph each field was taken from, 0 if none
    config_file,     \* the file the constructor was given
    classification_rules,  \* the attribute set by the constructor
    record           \* what the outermost call returned, once pc = "done"

merge_vars == <<idx, merged_blocks, current_block, at_entry, returned>>
classify_vars == <<all_formatted_text, classified_data, used_lines, line_idx, origin>>

vars == <<text_blocks, lists, pc, caller, direct_calls, idx, merged_blocks,
          current_block, at_entry, returned, all_formatted_text, classified_data,
          used_lines, line_idx, origin, config_file, classification_rules, record>>

\* what no step of a call changes: the engine and the caller's list
fixed_vars == <<config_file, classification_rules, text_blocks>>

\* a block dict with its style list read through the reference
Deref(b) ==
    [page |-> b.page, text |-> b.text, styles |-> lists[b.styles],
     avg_font_size |-> b.avg_font_size]
DerefAll(bs) == [k \in 1..Len(bs) |-> Deref(bs[k])]

\* the record created without its last key
RecordWithoutTags ==
    [Title |-> <<>>, ChineseTitle |-> <<>>, Category |-> <<>>, Author |-> <<>>,
     Translator |-> <<>>, Illustrator |-> <<>>, Detail |-> <<>>, RightsSold |-> <<>>,
     MoreInfo |-> <<>>]

\* classified_data as smart_classify_content creates it
EmptyRecord ==
    [Title |-> <<>>, ChineseTitle |-> <<>>, Category |-> <<>>, Author |-> <<>>,
     Translator |-> <<>>, Illustrator |-> <<>>, Detail |-> <<>>, RightsSold |-> <<>>,
     MoreInfo |-> <<>>, Tags |-> <<>>]

NoOrigin == [Title |-> 0, ChineseTitle |-> 0, Author |-> 0, Translator |-> 0, Illustrator |-> 0]

Init ==
    \E run \in Runs : LET doc == run[1] IN
        /\ config_file = run[2]
        /\ classification_rules = load_classification_rules(run[2])
        /\ record = <<>>
        /\ text_blocks = [k \in 1..Len(doc) |->
                             [page |-> doc[k].page, text |-> doc[k].text, styles |-> k,
                              avg_font_size |-> doc[k].avg_font_size]]
        /\ lists = [k \in 1..Len(doc) |-> doc[k].styles]
        /\ pc = "idle"
        /\ caller = "none"
        /\ direct_calls = 0
        /\ idx = 0
        /\ merged_blocks = <<>>
        /\ current_block = <<>>
        /\ at_entry = <<>>
        /\ returned = <<>>
        /\ all_formatted_text = <<>>
        /\ classified_data = EmptyRecord
        /\ used_lines = {}
        /\ line_idx = 0
        /\ origin = NoOrigin

\* ------------------------------------------- clean_and_merge_paragraphs
\* the average left as it was
AverageKeepCurrent(current_size, block_size) == current_size

\* (current_size + block_size) / 2
Average(current_size, block_size) == (current_size + block_size) \div 2

\* entry of clean_and_merge_paragraphs(text_blocks)
Enter(who) ==
    /\ pc' = "merge"
    /\ caller' = who
    /\ idx' = 1
    /\ merged_blocks' = <<>>
    /\ current_block' = <<>>
    /\ at_entry' = DerefAll(text_blocks)
    /\ UNCHANGED <<fixed_vars, record, lists, returned, classify_vars>>

\* the caller runs the reconstruction itself before classifying
CallDirect ==
    /\ pc = "idle"
    /\ direct_calls < MaxDirectCalls
    /\ direct_calls' = direct_calls + 1
    /\ Enter("test")

\* one iteration of the for loop
MergeBlock ==
    /\ pc = "merge"
    /\ idx <= Len(text_blocks)
    /\ LET block == text_blocks[idx]
           text == Strip(block.text)
           cur == current_block[1]
       IN  /\ idx' = idx + 1
           /\ IF text = <<>>
              THEN UNCHANGED <<merged_blocks, current_block, lists>>
              ELSE IF current_block = <<>> \/ _is_new_paragraph(text, Deref(block))
              THEN /\ merged_blocks' = IF current_block # <<>>
                                       THEN Append(merged_blocks, cur)
                                       ELSE merged_blocks
                   /\ current_block' = <<block>>
                   /\ UNCHANGED lists
              ELSE IF _should_merge_texts(cur.text, text)
              THEN /\ current_block' =
                        <<[page |-> cur.page,
                           text |-> _smart_join_texts(cur.text, text),
                           styles |-> cur.styles,
                           avg_font_size |->
                               Average(cur.avg_font_size, block.avg_font_size)]>>
                   /\ lists' = [lists EXCEPT ![cur.styles] = @ \o lists[block.styles]]
                   /\ UNCHANGED merged_blocks
              ELSE /\ merged_blocks' = Append(merged_blocks, cur)
                   /\ current_block' = <<block>>
                   /\ UNCHANGED lists
    /\ UNCHANGED <<fixed_vars, record, pc, caller, direct_calls, at_entry, returned, classify_vars>>

\* the return that appends the paragraph still open twice
MergeReturnTwice ==
    /\ pc = "merge"
    /\ idx > Len(text_blocks)
    /\ LET result == IF current_block # <<>>
                     THEN merged_blocks \o current_block \o current_block
                     ELSE merged_blocks
       IN  /\ merged_blocks' = result
           /\ returned' = Append(returned, DerefAll(result))
    /\ pc' = IF caller = "test" THEN "idle" ELSE "format"
    /\ UNCHANGED <<fixed_vars, record, lists, caller, direct_calls, idx, current_block, at_entry,
                   classify_vars>>

\* the return without the append of the paragraph still open
MergeReturnWithoutOpen ==
    /\ pc = "merge"
    /\ idx > Len(text_blocks)
    /\ merged_blocks' = merged_blocks
    /\ returned' = Append(returned, DerefAll(merged_blocks))
    /\ pc' = IF caller = "test" THEN "idle" ELSE "format"
    /\ UNCHANGED <<fixed_vars, record, lists, caller, direct_calls, idx, current_block, at_entry,
                   classify_vars>>

\* end of the loop: the open paragraph is appended and the list returned
MergeReturn ==
    /\ pc = "merge"
    /\ idx > Len(text_blocks)
    /\ LET result == IF current_block # <<>>
                     THEN Append(merged_blocks, current_block[1])
                     ELSE merged_blocks
       IN  /\ merged_blocks' = result
           /\ returned' = Append(returned, DerefAll(result))
    /\ pc' = IF caller = "test" THEN "idle" ELSE "format"
    /\ UNCHANGED <<fixed_vars, record, lists, caller, direct_calls, idx, current_block, at_entry,
                   classify_vars>>

\* smart_classify_content(text_blocks) begins with the reconstruction
CallClassify ==
    /\ pc = "idle"
    /\ Enter("classify")
    /\ UNCHANGED direct_calls

\* process_pdf, once extract_text_with_styles has given text_blocks: without
\* fragments it returns {}, else what smart_classify_content returns
ProcessPdf ==
    /\ pc = "idle"
    /\ direct_calls = 0
    /\ IF text_blocks = <<>>
       THEN /\ pc' = "done"
            /\ record' = <<>>
            /\ UNCHANGED <<fixed_vars, lists, caller, merge_vars, classify_vars>>
       ELSE Enter("classify")
    /\ UNCHANGED direct_calls

\* ---------------------------------------------- smart_classify_content
\* merged_blocks by value, each block numbered by its place in merged_blocks
Paragraphs ==
    [k \in 1..Len(merged_blocks) |->
        [page |-> merged_blocks[k].page, text |-> merged_blocks[k].text,
         styles |-> lists[merged_blocks[k].styles],
         avg_font_size |-> merged_blocks[k].avg_font_size, para |-> k]]

\* the loop that builds all_formatted_text
FormatBlocks ==
    /\ pc = "format"
    /\ all_formatted_text' =
           [k \in 1..Len(merged_blocks) |->
               clean_text_content(apply_html_formatting(Paragraphs[k]))]
    /\ pc' = "title"
    /\ UNCHANGED <<fixed_vars, record, lists, caller, direct_calls, merge_vars,
                   classified_data, used_lines, line_idx, origin>>

\* title candidates among the five largest blocks, and the choice of the best
DetectTitle ==
    /\ pc = "title"
    /\ LET sorted_blocks == SortBySize(Paragraphs)
           top == SubSeq(sorted_blocks, 1, IF Len(sorted_blocks) < TopCount
                                           THEN Len(sorted_blocks) ELSE TopCount)
           title_candidates == TitleCandidates(top)
           best == BestCandidate(title_candidates)
       IN  IF title_candidates # <<>>
           THEN /\ classified_data' = [classified_data EXCEPT !.Title = TitleValue(best.block)]
                /\ origin' = [origin EXCEPT !.Title = best.block.para]
           ELSE UNCHANGED <<classified_data, origin>>
    /\ pc' = "chinese"
    /\ UNCHANGED <<fixed_vars, record, lists, caller, direct_calls, merge_vars,
                   all_formatted_text, used_lines, line_idx>>

\* the loop that looks for the localized title
FindChineseTitle ==
    /\ pc = "chinese"
    /\ LET hits == {k \in 1..Len(merged_blocks) :
                       IsChineseTitle(Paragraphs[k], classified_data.Title)}
           first == CHOOSE k \in hits : \A j \in hits : k <= j
       IN  IF hits # {}
           THEN /\ classified_data' =
                       [classified_data EXCEPT !.ChineseTitle =
                           clean_text_content(apply_html_formatting(Paragraphs[first]))]
                /\ origin' = [origin EXCEPT !.ChineseTitle = first]
           ELSE UNCHANGED <<classified_data, origin>>
    /\ pc' = "person"
    /\ line_idx' = 1
    /\ used_lines' = {}
    /\ UNCHANGED <<fixed_vars, record, lists, caller, direct_calls, merge_vars, all_formatted_text>>

\* the names one line yields for the fields that are still empty
LineAuthor(line_clean, skip) ==
    IF ~skip /\ classified_data.Author = <<>>
    THEN AuthorOf(line_clean, classification_rules.author_keywords) ELSE <<>>
LineTranslator(line_clean, skip) ==
    IF ~skip /\ classified_data.Translator = <<>>
    THEN TranslatorOf(line_clean, classification_rules.translator_keywords) ELSE <<>>
LineIllustratorAgain(line_clean, skip) ==
    IF ~skip
    THEN IllustratorOf(line_clean, classification_rules.illustrator_keywords) ELSE <<>>
LineIllustrator(line_clean, skip) ==
    IF ~skip /\ classified_data.Illustrator = <<>>
    THEN IllustratorOf(line_clean, classification_rules.illustrator_keywords) ELSE <<>>

\* the assignments of one iteration, given what the line yields; re.search
\* raising ends smart_classify_content, which has no handler for it
StorePersons(line_clean, author, translator, illustrator) ==
    /\ pc' = IF <<ReError>> \in {author, translator, illustrator} THEN "raised" ELSE pc
    /\ classified_data' =
           [classified_data EXCEPT
               !.Author = IF author \notin {<<>>, <<ReError>>} THEN author[1] ELSE @,
               !.Translator =
                   IF translator \notin {<<>>, <<ReError>>} THEN translator[1] ELSE @,
               !.Illustrator =
                   IF illustrator \notin {<<>>, <<ReError>>} THEN illustrator[1] ELSE @]
    /\ origin' =
           [origin EXCEPT
               !.Author = IF author \notin {<<>>, <<ReError>>} THEN line_idx ELSE @,
               !.Translator = IF translator \notin {<<>>, <<ReError>>} THEN line_idx ELSE @,
               !.Illustrator =
                   IF illustrator \notin {<<>>, <<ReError>>} THEN line_idx ELSE @]
    /\ used_lines' =
           IF author # <<>> \/ translator # <<>> \/ illustrator # <<>>
           THEN used_lines \cup {line_clean} ELSE used_lines

\* the body of the loop for one line
PersonBody(line_clean, skip) ==
    StorePersons(line_clean, LineAuthor(line_clean, skip),
                 LineTranslator(line_clean, skip), LineIllustrator(line_clean, skip))

\* one iteration of the loop over all_formatted_text that fills the person fields
PersonLine ==
    /\ pc = "person"
    /\ line_idx <= Len(all_formatted_text)
    /\ PersonBody(Strip(all_formatted_text[line_idx]),
                  \/ Strip(all_formatted_text[line_idx]) = <<>>
                  \/ Strip(all_formatted_text[line_idx]) \in used_lines)
    /\ line_idx' = line_idx + 1
    /\ UNCHANGED <<fixed_vars, record, lists, caller, direct_calls, merge_vars,
                   all_formatted_text>>

\* the person-field loop is over
PersonDone ==
    /\ pc = "person"
    /\ line_idx > Len(all_formatted_text)
    /\ pc' = "detail"
    /\ UNCHANGED <<fixed_vars, record, lists, caller, direct_calls, merge_vars, classify_vars>>

\* the loop that collects detail_content, and the assignment of Detail
CollectDetail ==
    /\ pc = "detail"
    /\ classified_data' =
           [classified_data EXCEPT !.Detail =
               Truncate(JoinLines(DetailContent(all_formatted_text, used_lines,
                                                classified_data)))]
    /\ pc' = "info"
    /\ UNCHANGED <<fixed_vars, record, lists, caller, direct_calls, merge_vars,
                   all_formatted_text, used_lines, line_idx, origin>>

\* the loop that collects info_content, and the assignment of More Info
CollectInfo ==
    /\ pc = "info"
    /\ classified_data' =
           [classified_data EXCEPT !.MoreInfo =
               JoinLines(InfoContent(all_formatted_text, used_lines))]
    /\ pc' = "category"
    /\ UNCHANGED <<fixed_vars, record, lists, caller, direct_calls, merge_vars,
                   all_formatted_text, used_lines, line_idx, origin>>

\* the category chain over the joined text; classified_data is returned
DetectCategory ==
    /\ pc = "category"
    /\ classified_data' =
           [classified_data EXCEPT !.Category =
               CategoryOf(JoinLines(all_formatted_text),
                          ToLower(JoinLines(all_formatted_text)))]
    /\ record' = classified_data'
    /\ pc' = "done"
    /\ UNCHANGED <<fixed_vars, lists, caller, direct_calls, merge_vars,
                   all_formatted_text, used_lines, line_idx, origin>>

Next ==
    \/ CallDirect
    \/ CallClassify
    \/ ProcessPdf
    \/ MergeBlock
    \/ MergeReturn
    \/ FormatBlocks
    \/ DetectTitle
    \/ FindChineseTitle
    \/ PersonLine
    \/ PersonDone
    \/ CollectDetail
    \/ CollectInfo
    \/ DetectCategory

Spec == Init /\ [][Next]_vars

\* ================================================================ claims
\* the running call of clean_and_merge_paragraphs has returned
Finished == pc # "merge" /\ returned # <<>>
LastReturned == returned[Len(returned)]

\* smart_classify_content has built all_formatted_text
Formatted == pc \in {"title", "chinese", "person", "detail", "info", "category", "done"}

PersonFields == {"Author", "Translator", "Illustrator"}
RecordFields == {"Title", "ChineseTitle"} \cup PersonFields

\* number of places where p occurs in t
CountOcc(t, p) == Cardinality({k \in 1..Len(t) : OccursAt(t, p, k)})

\* C1: no two of Author, Translator and Illustrator are extracted from the
\* same source line.
C1_FieldConsumption ==
    \A f \in PersonFields : \A g \in PersonFields \ {f} :
        origin[f] # 0 => origin[f] # origin[g]

ScenarioAText == Str("Chapter One: Origins is a story of courage.")

\* C2, as claimed: Scenario A is reconstructed into two paragraphs.
C2_ScenarioA_TwoParagraphs ==
    (Finished /\ at_entry = <<ScenarioA1, ScenarioA2>>) => Len(LastReturned) = 2

\* C2, amended: Scenario A is reconstructed into exactly one paragraph; the
\* second fragment is merged into the first, the texts joined by one space.
C2_ScenarioA_Merged ==
    (Finished /\ at_entry = <<ScenarioA1, ScenarioA2>>)
        => Len(LastReturned) = 1 /\ LastReturned[1].text = ScenarioAText

C2_Witness ==
    /\ Finished
    /\ at_entry = <<ScenarioA1, ScenarioA2>>
    /\ Len(LastReturned) = 1

\* C3: the Scenario C line gives Translator the whole name list, with the
\* trailing page number stripped.
C3_ScenarioC_Translator ==
    (pc = "done" /\ at_entry = <<ScenarioC>>)
        => classified_data.Translator = Str("Chen-Yu Chang, Noax Tao and Lee-Hang Chen")

ScenarioBText == ScenarioB1.text \o <<" ">> \o ScenarioB2.text \o <<" ">> \o ScenarioB3.text

C5_InputUnmodified == Finished => DerefAll(text_blocks) = at_entry

\* C6: two successive calls of clean_and_merge_paragraphs on the same fragment
\* list return the same paragraphs.
C6_SameResultTwice == Len(returned) >= 2 => returned[2] = returned[1]

\* the Title value without its <b> and </b> markers
TitleText == Replace(Replace(classified_data.Title, OpenB, <<>>), CloseB, <<>>)

\* C7: the localized title is never the Title's text.
C7_TitleExclusive ==
    classified_data.ChineseTitle # <<>> => classified_data.ChineseTitle # TitleText

\* C8: the paragraph taken as Title or as localized title supplies no other
\* of the five fields Title, localized title, Author, Translator, Illustrator.
C8_OneFieldPerParagraph ==
    \A f \in {"Title", "ChineseTitle"} : \A g \in RecordFields \ {f} :
        origin[f] # 0 => origin[f] # origin[g]

\* the two-fragment inputs of the merge-monotonicity claim
HyphenInput ==
    /\ Len(at_entry) = 2
    /\ EndsWith(at_entry[1].text, <<"-">>)
    /\ Strip(at_entry[2].text) # <<>>
    /\ ~_is_new_paragraph(Strip(at_entry[2].text), at_entry[2])

\* C9: a first fragment ending in '-' followed by a fragment that is not a
\* new-paragraph trigger gives one paragraph: the first text without its
\* hyphen, then the second text, with nothing between.
C9_HyphenJoin ==
    (Finished /\ HyphenInput)
        => /\ Len(LastReturned) = 1
           /\ LastReturned[1].text =
                  SubSeq(at_entry[1].text, 1, Len(at_entry[1].text) - 1) \o at_entry[2].text

C9_Witness ==
    /\ Finished
    /\ HyphenInput
    /\ HasChar(at_entry[1].text, Terminal)
    /\ FirstIn(at_entry[2].text, Upper)
    /\ LastReturned[1].text = Str("It ended. Then he began the reOp")

\* no <i> opens inside an open <i>...</i> pair
FlatItalic(t) ==
    \A k \in 1..Len(t) :
        OccursAt(t, OpenI, k)
            => CountOcc(SubSeq(t, 1, k - 1), OpenI) = CountOcc(SubSeq(t, 1, k - 1), CloseI)

\* C10: the markup of a paragraph never has an italic pair inside an italic pair.
C10_NoNestedItalic ==
    pc = "format" =>
        \A k \in 1..Len(merged_blocks) : FlatItalic(apply_html_formatting(Paragraphs[k]))

\* smart_classify_content has returned its record
CoreReturned == pc = "done" /\ returned # <<>>

\* C11: smart_classify_content never raises, whatever the keyword lists of
\* the rules hold.
C11_NeverRaises == pc # "raised"

\* the detail lines, joined by single spaces, once Detail has been assigned
JoinedDetail == JoinLines(DetailContent(all_formatted_text, used_lines, classified_data))

FullText == JoinLines(all_formatted_text)
HasComic ==
    \/ Contains(ToLower(FullText), Str("comic"))
    \/ Contains(ToLower(FullText), Str("manga"))
    \/ Contains(FullText, <<"u6f2b", "u756b">>)
HasNovel ==
    \/ Contains(ToLower(FullText), Str("novel"))
    \/ Contains(FullText, <<"u5c0f", "u8aaa">>)
HasTextbook ==
    \/ Contains(ToLower(FullText), Str("textbook"))
    \/ Contains(FullText, <<"u6559", "u79d1", "u66f8">>)

\* C13: Category is the comics category whenever the text holds comic, manga
\* or the CJK word for comics, also when it holds a fiction or textbook word;
\* else the fiction category when it holds novel or its CJK word; else the
\* education category when it holds textbook or its CJK word; else empty.
C13_CategoryPriority ==
    CoreReturned =>
        /\ HasComic => record.Category = <<"u6f2b", "u756b", "u985e">>
        /\ (~HasComic /\ HasNovel) => record.Category = <<"u5c0f", "u8aaa", "u985e">>
        /\ (~HasComic /\ ~HasNovel /\ HasTextbook)
               => record.Category = <<"u6559", "u80b2", "u985e">>
        /\ (~HasComic /\ ~HasNovel /\ ~HasTextbook) => record.Category = <<>>

C13_Witness ==
    /\ CoreReturned
    /\ HasNovel
    /\ Contains(FullText, <<"u6f2b", "u756b">>)
    /\ record.Category = <<"u6f2b", "u756b", "u985e">>

\* C14: a single fragment with a non-blank text comes back as one paragraph
\* with the fragment's page, text, style spans and avg_font_size, whether or
\* not the fragment is a new-paragraph trigger.
C14_SingletonUnchanged ==
    (Finished /\ Len(at_entry) = 1 /\ Strip(at_entry[1].text) # <<>>)
        => LastReturned = <<at_entry[1]>>

C14_Witness ==
    /\ Finished
    /\ at_entry = <<LongPlain>>
    /\ ~_is_new_paragraph(LongPlain.text, LongPlain)
    /\ LastReturned[1].page = 2

AllFields ==
    {"Title", "ChineseTitle", "Category", "Author", "Translator", "Illustrator",
     "Detail", "RightsSold", "MoreInfo", "Tags"}

\* C15: given an empty fragment sequence, smart_classify_content returns a
\* record that has the ten fields, each of them the empty string.
C15_EmptyInputEmptyRecord ==
    (CoreReturned /\ text_blocks = <<>>)
        => /\ DOMAIN record = AllFields
           /\ \A f \in AllFields : record[f] = <<>>

C15_Witness ==
    /\ CoreReturned
    /\ text_blocks = <<>>
    /\ record.Title = <<>>
    /\ record.Tags = <<>>

\* default_rules.update(custom_rules) raises
UpdateRaises(custom_rules) ==
    \/ custom_rules.kind = "scalar"
    \/ /\ custom_rules.kind = "array"
       /\ \E k \in 1..Len(custom_rules.items) : Len(custom_rules.items[k]) # 2

\* the configuration was parsed and update took all of it
Applied == config_file.kind \in {"object", "array"} /\ ~UpdateRaises(config_file)

\* the values the configuration supplies for key
Supplied(key) ==
    {config_file.items[k][2] :
        k \in {j \in 1..Len(config_file.items) : config_file.items[j][1] = key}}

\* C16: the rules hold, for each key of a configuration that was parsed and
\* applied, the supplied value and, for every other key, the default; when
\* the configuration could not be loaded or applied they are the defaults.
C16_ConfigOverlay ==
    /\ Applied =>
           \A key \in DOMAIN classification_rules :
               IF Supplied(key) # {}
               THEN classification_rules[key] \in Supplied(key)
               ELSE key \in DOMAIN default_rules
                    /\ classification_rules[key] = default_rules[key]
    /\ ~Applied => classification_rules = default_rules

\* the fragment the for loop is at, and the paragraph that is open
Incoming == text_blocks[idx]
IncomingText == Strip(Incoming.text)
OpenText == Strip(current_block[1].text)

\* the loop is at a fragment while a paragraph is open
AtFragment == pc = "merge" /\ idx <= Len(text_blocks) /\ current_block # <<>>

\* the fragment has a text and is one of the new-paragraph triggers
Trigger(b) ==
    \/ b.avg_font_size > Sz(14)
    \/ \E k \in 1..Len(b.styles) : b.styles[k].is_bold
    \/ LatinHeading(Strip(b.text))
    \/ CJKHeading(Strip(b.text))
    \/ NumberedMarker(Strip(b.text))
    \/ \E k \in 1..Len(chapter_keywords) : StartsWith(Strip(b.text), chapter_keywords[k])

\* the loop is at a fragment the merge decision is asked about
Deciding == AtFragment /\ IncomingText # <<>> /\ ~Trigger(Deref(Incoming))

\* the step merges the fragment into the open paragraph
MergedIn == merged_blocks' = merged_blocks /\ current_block'[1].styles = current_block[1].styles

\* the step closes the open paragraph and opens one with the fragment
OpensNew ==
    /\ merged_blocks' = Append(merged_blocks, current_block[1])
    /\ current_block' = <<Incoming>>

Commas == {",", FwComma}

\* C17, as claimed: a continuation that starts with an uppercase Latin letter
\* or a CJK ideograph is merged exactly when the open text ends in a comma or
\* holds no sentence-terminal punctuation.
C17_CapitalOrCJK ==
    [][(Deciding /\ ~LastIn(OpenText, Terminal) /\ FirstIn(IncomingText, Upper \cup CJK))
          => (MergedIn <=> (LastIn(OpenText, Commas) \/ ~HasChar(OpenText, Terminal)))]_vars

\* C17, amended: a continuation that starts with an uppercase Latin letter is
\* merged exactly when the open text ends in a comma or a hyphen, or is
\* shorter than 30 characters, or holds no sentence-terminal punctuation; one
\* that starts with a CJK ideograph is merged exactly when the open text ends
\* in a hyphen or a comma or both texts are shorter than 50 characters.
C17_CapitalThenCJK ==
    [][(Deciding /\ ~LastIn(OpenText, Terminal))
          => /\ FirstIn(IncomingText, Upper)
                  => (MergedIn <=> \/ LastIn(OpenText, Commas \cup {"-"})
                                   \/ Len(OpenText) < 30
                                   \/ ~HasChar(OpenText, Terminal))
             /\ FirstIn(IncomingText, CJK)
                  => (MergedIn <=> \/ LastIn(OpenText, Commas \cup {"-"})
                                   \/ Len(OpenText) < 50 /\ Len(IncomingText) < 50)]_vars

C17_Witness ==
    /\ Finished
    /\ at_entry = <<ShortTerminalInside, UpperStart>>
    /\ Len(LastReturned) = 1
    /\ LastReturned[1].text = Str("No. 5 seat Op")

C19_TerminalCloses ==
    [][(AtFragment /\ IncomingText # <<>> /\ LastIn(OpenText, Terminal)) => OpensNew]_vars

C19_Witness ==
    /\ Finished
    /\ at_entry = <<ScenarioB3, Blank, ScenarioB2>>
    /\ Len(LastReturned) = 2

\* C20: a continuation that starts with neither an uppercase Latin letter nor
\* a CJK ideograph, the open text not ending in sentence-terminal punctuation,
\* is merged exactly when it starts with a lowercase Latin letter, or the open
\* text ends in a hyphen or a comma, or both texts are shorter than 50.
C20_OtherContinuations ==
    [][(Deciding /\ ~LastIn(OpenText, Terminal) /\ ~FirstIn(IncomingText, Upper \cup CJK))
          => (MergedIn <=> \/ FirstIn(IncomingText, Lower)
                           \/ LastIn(OpenText, Commas \cup {"-"})
                           \/ Len(OpenText) < 50 /\ Len(IncomingText) < 50)]_vars

C20_Witness ==
    /\ Finished
    /\ at_entry = <<DigitStart, LongPlain>>
    /\ Len(LastReturned) = 2

\* the title search of smart_classify_content is over
TitleDone == pc \in {"chinese", "person", "detail", "info", "category", "done", "raised"}

\* paragraph k is among the TopCount largest: fewer than TopCount paragraphs
\* come before it in descending size, equal sizes in paragraph order
ComesBefore(j, k) ==
    \/ Paragraphs[j].avg_font_size > Paragraphs[k].avg_font_size
    \/ Paragraphs[j].avg_font_size = Paragraphs[k].avg_font_size /\ j < k
InTop(k) ==
    Cardinality({j \in 1..Len(merged_blocks) : ComesBefore(j, k)}) < TopCount

\* paragraph k has the length and the shape of a title and is not disqualified
Shaped(k) ==
    LET text == Strip(Paragraphs[k].text)
    IN  /\ Len(text) > 10 /\ Len(text) < 200
        /\ IsTitleLike(text)
        /\ ~IsNotTitle(text)

\* paragraph k is large or has a bold span
LargeOrBold(k) ==
    Paragraphs[k].avg_font_size >= Sz(14) \/ AnyBold(Paragraphs[k].styles)

\* C21 as stated: a shaped paragraph among the largest five is a candidate
\* whatever its size and boldness, so Title is set whenever there is one.
C21_ShapeSuffices ==
    TitleDone =>
        ((\E k \in 1..Len(merged_blocks) : InTop(k) /\ Shaped(k))
            => classified_data.Title # <<>>)

\* C21: the title candidates are the shaped paragraphs among the largest five
\* whose avg_font_size is at least 14 or that have a bold span; Title is set
\* exactly when there is one, and from one of them.
C21_LargeOrBold ==
    TitleDone =>
        /\ classified_data.Title # <<>>
              <=> \E k \in 1..Len(merged_blocks) :
                      InTop(k) /\ Shaped(k) /\ LargeOrBold(k)
        /\ origin.Title # 0
              => (InTop(origin.Title) /\ Shaped(origin.Title) /\ LargeOrBold(origin.Title))

C21_Witness ==
    /\ pc = "done"
    /\ at_entry = <<Plain12, Bold12>>
    /\ Shaped(1) /\ ~LargeOrBold(1)
    /\ origin.Title = 2

\* the score of paragraph k as a title candidate
Score(k) ==
    Paragraphs[k].avg_font_size + (IF AnyBold(Paragraphs[k].styles) THEN Sz(2) ELSE 0)

\* paragraph k is a title candidate
Candidate(k) == InTop(k) /\ Shaped(k) /\ LargeOrBold(k)

\* C22: the Title is the marked-up text of the candidate with the highest
\* score (avg_font_size, plus 2 with a bold span); among candidates of that
\* score it is the one that comes first in descending size, equal sizes in
\* paragraph order.
C22_HighestScoreFirst ==
    (TitleDone /\ origin.Title # 0) =>
        /\ \A k \in 1..Len(merged_blocks) :
              (Candidate(k) /\ k # origin.Title)
                  => \/ Score(k) < Score(origin.Title)
                     \/ Score(k) = Score(origin.Title) /\ ComesBefore(origin.Title, k)
        /\ classified_data.Title = TitleValue(Paragraphs[origin.Title])

C22_Witness ==
    /\ pc = "done"
    /\ at_entry = <<Bold12, Plain14>>
    /\ Score(1) = Score(2)
    /\ origin.Title = 2

\* the search for the localized title is over
ChineseDone == pc \in {"person", "detail", "info", "category", "done", "raised"}

\* C23: the stored localized title holds no <i> and no <b> marker, also when
\* the paragraph it is taken from has italic spans.
C23_LocalizedUnmarked ==
    ChineseDone =>
        \A marker \in {OpenI, CloseI, OpenB, CloseB} :
            ~Contains(classified_data.ChineseTitle, marker)

\* the words that mark a line as publication metadata
MetadataWords ==
    <<Str("publisher"), Str("isbn"), Str("pages"), Str("price"), Str("format"),
      Str("volume")>>

\* line k of all_formatted_text, stripped
Line(k) == Strip(all_formatted_text[k])

\* C24: every line that no person field was taken from and that contains
\* publisher, isbn, pages, price, format or volume, in any case, is part of
\* More Info.
C24_MetadataToMoreInfo ==
    CoreReturned =>
        \A k \in 1..Len(all_formatted_text) :
            (/\ Line(k) # <<>>
             /\ Line(k) \notin used_lines
             /\ ContainsAny(ToLower(Line(k)), MetadataWords))
                => Contains(record.MoreInfo, Line(k))

\* the values of the fields a line can have been assigned to
AssignedValues ==
    {Replace(Replace(record.Title, OpenB, <<>>), CloseB, <<>>), record.ChineseTitle,
     record.Author, record.Translator, record.Illustrator}

\* line k is free text: unclaimed, without a word of the exclusion list,
\* longer than 10 characters, neither a number nor an uppercase acronym
FreeText(k) ==
    /\ Line(k) # <<>>
    /\ Line(k) \notin used_lines
    /\ ~ContainsAny(ToLower(Line(k)), exclude_words)
    /\ Len(Line(k)) > 10
    /\ ~AllIn(Line(k), Digit)
    /\ ~AllIn(Line(k), Upper)

\* C25: a free-text line is left out of Detail only when it is identical to
\* the value of an assigned field; a line that merely contains the Author,
\* Translator or Illustrator value is part of Detail (as long as Detail was
\* not cut at its length limit).
C25_DuplicateByIdentity ==
    (CoreReturned /\ Len(record.Detail) <= DetailLimit) =>
        \A k \in 1..Len(all_formatted_text) :
            (FreeText(k) /\ Line(k) \notin AssignedValues)
                => Contains(record.Detail, Line(k))

\* ((..((s1 + s2) / 2 + s3) / 2 ..) + sn) / 2 over the sizes of blocks,
\* times 2 ^ (n - 1)
RECURSIVE Weighted(_)
Weighted(blocks) ==
    IF Len(blocks) = 1 THEN blocks[1].avg_font_size
    ELSE Weighted(SubSeq(blocks, 1, Len(blocks) - 1))
             + (2 ^ (Len(blocks) - 2)) * blocks[Len(blocks)].avg_font_size

\* the input fragments that have a text
RECURSIVE NonBlank(_)
NonBlank(blocks) ==
    IF blocks = <<>> THEN <<>>
    ELSE (IF Strip(Head(blocks).text) # <<>> THEN <<Head(blocks)>> ELSE <<>>)
         \o NonBlank(Tail(blocks))

\* C26: each merge sets avg_font_size to half the sum of the paragraph's
\* current avg_font_size and the fragment's; a fragment that is not merged
\* leaves the avg_font_size of the paragraph it closes unchanged; a paragraph
\* built from the fragments s1..sn ends with ((..((s1+s2)/2+s3)/2..)+sn)/2.
C26_PairwiseAverage ==
    /\ [][(AtFragment /\ IncomingText # <<>>)
              => /\ MergedIn
                     => 2 * current_block'[1].avg_font_size
                            = current_block[1].avg_font_size + Incoming.avg_font_size
                 /\ ~MergedIn
                     => merged_blocks'[Len(merged_blocks')].avg_font_size
                            = current_block[1].avg_font_size]_vars
    /\ []((Finished /\ Len(LastReturned) = 1)
              => (2 ^ (Len(NonBlank(at_entry)) - 1)) * LastReturned[1].avg_font_size
                     = Weighted(NonBlank(at_entry)))

C26_Witness ==
    /\ Finished
    /\ at_entry = <<ScenarioB1, Small10, Small10>>
    /\ Len(LastReturned) = 1
    /\ 4 * LastReturned[1].avg_font_size = Sz(12) + Sz(10) + 2 * Sz(10)
    /\ 3 * LastReturned[1].avg_font_size # Sz(12) + Sz(10) + Sz(10)

Claimed == {origin[f] : f \in DOMAIN origin} \ {0}

\* C28: the line of a paragraph that was assigned to Title, to the localized
\* title or to a person field is part of neither Detail nor More Info, and
\* no line is part of both.
C28_ClaimedStayOut ==
    CoreReturned =>
        /\ \A k \in Claimed :
              Line(k) # <<>>
                  => /\ ~Contains(record.Detail, Line(k))
                     /\ ~Contains(record.MoreInfo, Line(k))
        /\ \A k \in 1..Len(all_formatted_text) :
              Line(k) # <<>>
                  => ~(Contains(record.Detail, Line(k)) /\ Contains(record.MoreInfo, Line(k)))

\* the text of the paragraph built from a run of fragments: the first text
\* as it is, each later one joined to what precedes it
RECURSIVE TextOfRun(_)
TextOfRun(blocks) ==
    IF Len(blocks) = 1 THEN blocks[1].text
    ELSE LET open == Strip(TextOfRun(SubSeq(blocks, 1, Len(blocks) - 1)))
             incoming == Strip(blocks[Len(blocks)].text)
         IN  IF LastIn(open, {"-"})
             THEN SubSeq(open, 1, Len(open) - 1) \o incoming
             ELSE open \o <<" ">> \o incoming

\* paras are the paragraphs of consecutive runs that cover blocks
RECURSIVE SplitsInto(_, _)
SplitsInto(blocks, paras) ==
    IF blocks = <<>> \/ paras = <<>> THEN blocks = <<>> /\ paras = <<>>
    ELSE \E n \in 1..Len(blocks) :
             /\ paras[1].text = TextOfRun(SubSeq(blocks, 1, n))
             /\ SplitsInto(SubSeq(blocks, n + 1, Len(blocks)), Tail(paras))

\* C29: the returned paragraphs are built from consecutive runs of the
\* fragments that have a text, in input order, every such fragment in exactly
\* one run, the paragraph open at the end of the input included; fragments
\* without text take no part; with at least one fragment that has a text
\* there are between 1 and that many paragraphs.
C29_Partition ==
    Finished =>
        /\ SplitsInto(NonBlank(at_entry), LastReturned)
        /\ NonBlank(at_entry) # <<>>
              => (1 <= Len(LastReturned) /\ Len(LastReturned) <= Len(NonBlank(at_entry)))

C29_Witness ==
    /\ Finished
    /\ at_entry = <<ScenarioB1, Blank, ScenarioB2>>
    /\ Len(LastReturned) = 1
    /\ LastReturned[1].text = ScenarioB1.text \o <<" ">> \o ScenarioB2.text

\* a cleaned name has more than one character and is not a number
LongEnough(name) == Len(name) > 1 /\ ~AllIn(name, Digit)

\* what the keywords of a field yield for line k, keyword by keyword
AuthorYield(k) ==
    [j \in 1..Len(classification_rules.author_keywords) |->
        AuthorTry(Line(k), ToLower(Line(k)), classification_rules.author_keywords[j])]
TranslatorYield(k) ==
    [j \in 1..Len(classification_rules.translator_keywords) |->
        TranslatorTry(Line(k), ToLower(Line(k)),
                      classification_rules.translator_keywords[j])]
IllustratorYield(k) ==
    [j \in 1..Len(classification_rules.illustrator_keywords) |->
        IllustratorTry(Line(k), ToLower(Line(k)),
                       classification_rules.illustrator_keywords[j])]

\* the names of yield that are long enough, in keyword order
RECURSIVE Names(_)
Names(yield) ==
    IF yield = <<>> THEN <<>>
    ELSE (IF Head(yield) # <<>> /\ Head(yield) # <<ReError>> /\ LongEnough(Head(yield)[1])
          THEN Head(yield) ELSE <<>>)
         \o Names(Tail(yield))

\* the names among them that do not hold "publish"
RECURSIVE NotPublish(_)
NotPublish(names) ==
    IF names = <<>> THEN <<>>
    ELSE (IF ~Contains(ToLower(Head(names)), Str("publish")) THEN <<Head(names)>> ELSE <<>>)
         \o NotPublish(Tail(names))

\* value is the first name of the first line that has one, or empty without
\* such a line; names[k] are the names of line k
FirstOf(names, value) ==
    LET lines == {k \in DOMAIN names : names[k] # <<>>}
    IN  IF lines = {} THEN value = <<>>
        ELSE value = names[MinOf(lines)][1]

\* C30 as stated: each person field holds the name of the first line that
\* yields one of more than one character that is not a number.
C30_FirstLongEnough ==
    CoreReturned =>
        /\ FirstOf([k \in 1..Len(all_formatted_text) |-> Names(AuthorYield(k))],
                   record.Author)
        /\ FirstOf([k \in 1..Len(all_formatted_text) |-> Names(TranslatorYield(k))],
                   record.Translator)
        /\ FirstOf([k \in 1..Len(all_formatted_text) |-> Names(IllustratorYield(k))],
                   record.Illustrator)

\* C30: a person field that has been set is never changed, and each holds
\* the name of the first line that yields an accepted one: more than one
\* character, not a number and, for the Illustrator, without "publish".
C30_WriteOnce ==
    /\ [][\A f \in PersonFields :
              classified_data[f] # <<>> => classified_data'[f] = classified_data[f]]_vars
    /\ [](CoreReturned =>
              /\ FirstOf([k \in 1..Len(all_formatted_text) |-> Names(AuthorYield(k))],
                         record.Author)
              /\ FirstOf([k \in 1..Len(all_formatted_text) |-> Names(TranslatorYield(k))],
                         record.Translator)
              /\ FirstOf([k \in 1..Len(all_formatted_text) |->
                             NotPublish(Names(IllustratorYield(k)))],
                         record.Illustrator))

C30_Witness ==
    /\ CoreReturned
    /\ at_entry = <<IllustratorLine, IllustratorTwo>>
    /\ Names(IllustratorYield(2)) = <<Str("Di Xu")>>
    /\ record.Illustrator = Str("Cy Wu")

=============================================================================
